---------------------------- MODULE Spec2Model ----------------------------
(***************************************************************************)
(* A model of the ZyFi paymaster client (src/src/lib.rs, in_types.rs,      *)
(* out_types.rs): the client configuration, the two request builders       *)
(* `sponsored` and `paymaster`, the shared `handle_response`, the serde    *)
(* encoding of the request and the serde decoding of the response.         *)
(*                                                                         *)
(* Representation.                                                         *)
(*   Option<T>   : <<>> is None, <<x>> is Some(x).                         *)
(*   JSON value  : a tagged record, see JStr/JNum/JBool/JNull/JObj.        *)
(*   text        : a sequence of tokens (strings); the tokens QUOTE and    *)
(*                 BACKSLASH are the two characters Rust's Debug           *)
(*                 formatting of a string escapes.                         *)
(*   Result<T>   : [ok |-> TRUE, value |-> v] or                           *)
(*                 [ok |-> FALSE, kind |-> k, msg |-> text].  The code     *)
(*                 returns anyhow::Error everywhere; `kind` names the      *)
(*                 site of lib.rs that built the error.                    *)
(***************************************************************************)
EXTENDS Integers, Sequences, FiniteSets, TLC

VARIABLES config, calls, posts

vars == <<config, calls, posts>>

(***************************************************************************)
(* Bounds of the model.                                                    *)
(***************************************************************************)
\* Number of call slots: calls that may be in flight on the one client.
MaxCalls == 2

(***************************************************************************)
(* Program constants.                                                      *)
(***************************************************************************)
ZYFI_SPONSORED_URL == "https://api.zyfi.org/api/erc20_sponsored_paymaster/v1"

ZYFI_PAYMASTER_URL == "https://api.zyfi.org/api/erc20_paymaster/v1"

\* ClientZyFi::default(): chain_id of ZkSync mainnet.
DefaultChainId == 324

\* sponsorship_ratio: Some(100) in `sponsored`.
SponsorshipRatio == 100

\* replay_limit: Some(1) in `sponsored`.
ReplayLimit == 1

\* StatusCode::is_success(): 200 <= status <= 299.
SuccessLow == 200

SuccessHigh == 299

(***************************************************************************)
(* Option<T>.                                                              *)
(***************************************************************************)
None == <<>>

Some(x) == <<x>>

(***************************************************************************)
(* JSON values (serde_json::Value).                                        *)
(***************************************************************************)
JStr(s) == [t |-> "str", s |-> s]

JNum(n) == [t |-> "num", n |-> n]

JBool(b) == [t |-> "bool", b |-> b]

JNull == [t |-> "null"]

JObj(o) == [t |-> "obj", o |-> o]

\* A JSON object without the member k.
Without(o, k) == [x \in (DOMAIN o) \ {k} |-> o[x]]

\* A JSON object with the member k set to v.
With(o, k, v) == (k :> v) @@ o

(***************************************************************************)
(* Text.                                                                   *)
(***************************************************************************)
QUOTE == "\""

BACKSLASH == "\\"

\* The order in which the members of an object are written on the wire.
KeyOrder ==
  << "chainId", "feeTokenAddress", "sponsorshipRatio", "replayLimit",
     "txData", "isTestnet",
     "from", "to", "data", "value", "customData", "paymasterParams",
     "paymaster", "paymasterInput", "gasPerPubdata", "maxFeePerGas",
     "gasLimit", "gasPrice", "tokenAddress", "tokenPrice",
     "feeTokenAmount", "feeTokendecimals", "feeUSD", "markup",
     "expirationTime", "expiresIn", "maxNonce", "protocolAddress",
     "estimatedFinalFeeTokenAmount",
     "estimatedFinalFeeUsd", "estimatedFinalFeeUSD", "error" >>

RECURSIVE Render(_)
RECURSIVE RenderMembers(_, _, _)

\* The members of object o from position i of KeyOrder on; first tells
\* whether no member has been written yet (no comma before it).
RenderMembers(o, i, first) ==
  IF i > Len(KeyOrder) THEN <<>>
  ELSE IF KeyOrder[i] \in DOMAIN o
       THEN (IF first THEN <<>> ELSE <<",">>)
            \o <<QUOTE, KeyOrder[i], QUOTE, ":">>
            \o Render(o[KeyOrder[i]])
            \o RenderMembers(o, i + 1, FALSE)
       ELSE RenderMembers(o, i + 1, first)

\* The JSON text of a JSON value.
Render(j) ==
  CASE j.t = "str"  -> <<QUOTE, j.s, QUOTE>>
    [] j.t = "num"  -> <<ToString(j.n)>>
    [] j.t = "bool" -> <<IF j.b THEN "true" ELSE "false">>
    [] j.t = "null" -> <<"null">>
    [] j.t = "obj"  -> <<"{">> \o RenderMembers(j.o, 1, TRUE) \o <<"}">>

\* <char as Debug>: the quote and the backslash are escaped.
EscapeToken(tok) ==
  CASE tok = QUOTE     -> <<BACKSLASH, QUOTE>>
    [] tok = BACKSLASH -> <<BACKSLASH, BACKSLASH>>
    [] OTHER           -> <<tok>>

RECURSIVE EscapeDebug(_)

\* <str as Debug>::fmt without the enclosing quotes: every token escaped
\* (the text is split in halves to keep the evaluation shallow).
EscapeDebug(text) ==
  IF Len(text) = 0 THEN <<>>
  ELSE IF Len(text) = 1 THEN EscapeToken(text[1])
  ELSE LET mid == Len(text) \div 2
       IN  EscapeDebug(SubSeq(text, 1, mid))
             \o EscapeDebug(SubSeq(text, mid + 1, Len(text)))

\* format!("{:?}", s) for a String s: the escaped text between quotes.
DebugString(text) == <<QUOTE>> \o EscapeDebug(text) \o <<QUOTE>>

(***************************************************************************)
(* Outbound types (in_types.rs) and their serde serialization.             *)
(***************************************************************************)
\* <in_types::TxData as Default>::default().
TxDataDefault == [from |-> "", to |-> "", data |-> ""]

\* <in_types::Request as Default>::default().  lib.rs also initialises a
\* gas_limit member (lines 57 and 94) that in_types.rs does not declare; the
\* record carries it and the derived serializer, which writes the declared
\* members only, does not write it.
RequestDefault ==
  [ chain_id          |-> 0,
    fee_token_address |-> None,
    sponsorship_ratio |-> None,
    replay_limit      |-> None,
    tx_data           |-> TxDataDefault,
    is_testnet        |-> FALSE,
    gas_limit         |-> None ]

\* #[derive(Serialize)] for in_types::TxData: no renaming.
SerializeTxData(tx) ==
  JObj([from |-> JStr(tx.from), to |-> JStr(tx.to), data |-> JStr(tx.data)])

\* The keys #[derive(Serialize)] writes for in_types::Request: an Option
\* member marked skip_serializing_if = "Option::is_none" is left out when None.
RequestKeys(req) ==
  {"chainId", "txData", "isTestnet"}
    \cup (IF req.fee_token_address # None THEN {"feeTokenAddress"} ELSE {})
    \cup (IF req.sponsorship_ratio # None THEN {"sponsorshipRatio"} ELSE {})
    \cup (IF req.replay_limit # None THEN {"replayLimit"} ELSE {})

\* Variant: without skip_serializing_if, a None member is written as null.
SerializeRequestWithNulls(req) ==
  LET opt(v, some(_)) == IF v = None THEN JNull ELSE some(v[1])
  IN  JObj([ chainId          |-> JNum(req.chain_id),
             feeTokenAddress  |-> opt(req.fee_token_address, JStr),
             sponsorshipRatio |-> opt(req.sponsorship_ratio, JNum),
             replayLimit      |-> opt(req.replay_limit, JNum),
             txData           |-> SerializeTxData(req.tx_data),
             isTestnet        |-> JBool(req.is_testnet) ])

\* #[derive(Serialize)] #[serde(rename_all = "camelCase")] for Request.
SerializeRequest(req) ==
  JObj([ k \in RequestKeys(req) |->
           CASE k = "chainId"          -> JNum(req.chain_id)
             [] k = "feeTokenAddress"  -> JStr(req.fee_token_address[1])
             [] k = "sponsorshipRatio" -> JNum(req.sponsorship_ratio[1])
             [] k = "replayLimit"      -> JNum(req.replay_limit[1])
             [] k = "txData"           -> SerializeTxData(req.tx_data)
             [] k = "isTestnet"        -> JBool(req.is_testnet) ])

(***************************************************************************)
(* Inbound types (out_types.rs) and their serde deserialization.           *)
(***************************************************************************)
MissingField(k) == <<"missing field ", k>>

InvalidType(k) == <<"invalid type at ", k>>

\* A member of type String: it must be present and a JSON string.
StringError(o, k) ==
  IF k \notin DOMAIN o THEN <<MissingField(k)>>
  ELSE IF o[k].t # "str" THEN <<InvalidType(k)>>
  ELSE <<>>

\* A member of type u32 or u64: present, a JSON number, not negative.  (The
\* numbers of the model stay far below 2^32, so the upper end of the range is
\* never met.)
UnsignedError(o, k) ==
  IF k \notin DOMAIN o THEN <<MissingField(k)>>
  ELSE IF o[k].t # "num" THEN <<InvalidType(k)>>
  ELSE IF o[k].n < 0 THEN <<InvalidType(k)>>
  ELSE <<>>

\* A member of type Option<String>: absent or null is None; otherwise it
\* must be a JSON string.
OptionStringError(o, k) ==
  IF k \in DOMAIN o /\ o[k].t \notin {"str", "null"}
  THEN <<InvalidType(k)>>
  ELSE <<>>

\* Variant: an absent member decodes to the empty string, not to None.
OptionStringOrEmpty(o, k) ==
  IF k \in DOMAIN o /\ o[k].t = "str" THEN Some(o[k].s) ELSE Some("")

OptionString(o, k) ==
  IF k \in DOMAIN o /\ o[k].t = "str" THEN Some(o[k].s) ELSE None

\* out_types::PaymasterParams.
PaymasterParamsErrors(o) ==
  StringError(o, "paymaster") \o StringError(o, "paymasterInput")

PaymasterParamsValue(o) ==
  [paymaster |-> o.paymaster.s, paymaster_input |-> o.paymasterInput.s]

\* out_types::CustomData.
CustomDataErrors(o) ==
  (IF "paymasterParams" \notin DOMAIN o THEN <<MissingField("paymasterParams")>>
   ELSE IF o.paymasterParams.t # "obj" THEN <<InvalidType("paymasterParams")>>
   ELSE PaymasterParamsErrors(o.paymasterParams.o))
  \o UnsignedError(o, "gasPerPubdata")

CustomDataValue(o) ==
  [ paymaster_params |-> PaymasterParamsValue(o.paymasterParams.o),
    gas_per_pubdata  |-> o.gasPerPubdata.n ]

\* out_types::TxData.
TxDataErrors(o) ==
  UnsignedError(o, "chainId")
  \o StringError(o, "from") \o StringError(o, "to")
  \o StringError(o, "data") \o StringError(o, "value")
  \o (IF "customData" \notin DOMAIN o THEN <<MissingField("customData")>>
      ELSE IF o.customData.t # "obj" THEN <<InvalidType("customData")>>
      ELSE CustomDataErrors(o.customData.o))
  \o StringError(o, "maxFeePerGas")
  \o UnsignedError(o, "gasLimit")

TxDataValue(o) ==
  [ chain_id        |-> o.chainId.n,
    from            |-> o.from.s,
    to              |-> o.to.s,
    data            |-> o.data.s,
    value           |-> o.value.s,
    custom_data     |-> CustomDataValue(o.customData.o),
    max_fee_per_gas |-> o.maxFeePerGas.s,
    gas_limit       |-> o.gasLimit.n ]

\* out_types::Response: what is wrong with object o, in declaration order.
ResponseErrors(o) ==
  (IF "txData" \notin DOMAIN o THEN <<MissingField("txData")>>
   ELSE IF o.txData.t # "obj" THEN <<InvalidType("txData")>>
   ELSE TxDataErrors(o.txData.o))
  \o StringError(o, "gasLimit") \o StringError(o, "gasPrice")
  \o StringError(o, "tokenAddress") \o StringError(o, "tokenPrice")
  \o StringError(o, "feeTokenAmount") \o StringError(o, "feeTokendecimals")
  \o StringError(o, "feeUSD") \o StringError(o, "markup")
  \o StringError(o, "expirationTime") \o StringError(o, "expiresIn")
  \o OptionStringError(o, "maxNonce")
  \o OptionStringError(o, "protocolAddress")
  \o OptionStringError(o, "sponsorshipRatio")
  \o OptionStringError(o, "estimatedFinalFeeTokenAmount")
  \o OptionStringError(o, "estimatedFinalFeeUsd")

\* out_types::Response built from an object that has no error.  Members of
\* the object that the struct does not declare are ignored.
ResponseValue(o) ==
  [ tx_data            |-> TxDataValue(o.txData.o),
    gas_limit          |-> o.gasLimit.s,
    gas_price          |-> o.gasPrice.s,
    token_address      |-> o.tokenAddress.s,
    token_price        |-> o.tokenPrice.s,
    fee_token_amount   |-> o.feeTokenAmount.s,
    fee_token_decimals |-> o.feeTokendecimals.s,
    fee_usd            |-> o.feeUSD.s,
    markup             |-> o.markup.s,
    expiration_time    |-> o.expirationTime.s,
    expires_in         |-> o.expiresIn.s,
    max_nonce          |-> OptionString(o, "maxNonce"),
    protocol_address   |-> OptionString(o, "protocolAddress"),
    sponsorship_ratio  |-> OptionString(o, "sponsorshipRatio"),
    estimated_final_fee_token_amount |->
        OptionString(o, "estimatedFinalFeeTokenAmount"),
    estimated_final_fee_usd |-> OptionString(o, "estimatedFinalFeeUsd") ]

\* Variant: as if the struct were marked #[serde(default)], a missing
\* member takes its default instead of failing the decoding.
DecodeResponseDefaulting(j) ==
  LET errs == IF j.t # "obj" THEN <<InvalidType("struct Response")>>
              ELSE ResponseErrors(j.o)
      hard == SelectSeq(errs, LAMBDA e : e[1] # "missing field ")
  IN  IF hard # <<>>
      THEN [ok |-> FALSE, diag |-> Head(hard)]
      ELSE IF errs # <<>>
      THEN [ok |-> TRUE, value |-> [gas_limit |-> "", max_nonce |-> None]]
      ELSE [ok |-> TRUE, value |-> ResponseValue(j.o)]

\* #[derive(Deserialize)] #[serde(rename_all = "camelCase")] for Response,
\* applied to a JSON value: the struct, or the first thing that is wrong.
DecodeResponse(j) ==
  LET errs == IF j.t # "obj" THEN <<InvalidType("struct Response")>>
              ELSE ResponseErrors(j.o)
  IN  IF errs # <<>>
      THEN [ok |-> FALSE, diag |-> Head(errs)]
      ELSE [ok |-> TRUE, value |-> ResponseValue(j.o)]

(***************************************************************************)
(* The transport: what the remote side may answer.                         *)
(***************************************************************************)
\* out_types::TxData as the API writes it.
SampleTxData ==
  [ chainId      |-> JNum(DefaultChainId),
    from         |-> JStr("0xa1"),
    to           |-> JStr("0xb1"),
    data         |-> JStr("0xd204"),
    value        |-> JStr("0"),
    customData   |-> JObj([ paymasterParams |->
                              JObj([ paymaster      |-> JStr("0xpm"),
                                     paymasterInput |-> JStr("0xin") ]),
                            gasPerPubdata |-> JNum(50000) ]),
    maxFeePerGas |-> JStr("25000000"),
    gasLimit     |-> JNum(21000) ]

\* A response of the fee-paymaster endpoint: no sponsored-only member.
PaymasterBody ==
  [ txData           |-> JObj(SampleTxData),
    gasLimit         |-> JStr("21000"),
    gasPrice         |-> JStr("25"),
    tokenAddress     |-> JStr("0xfee"),
    tokenPrice       |-> JStr("1.01"),
    feeTokenAmount   |-> JStr("1234"),
    feeTokendecimals |-> JStr("18"),
    feeUSD           |-> JStr("0.02"),
    markup           |-> JStr("5"),
    expirationTime   |-> JStr("1700000000"),
    expiresIn        |-> JStr("60") ]

\* A response of the sponsored endpoint: every sponsored-only member.
SponsoredBody ==
  [ maxNonce          |-> JStr("7"),
    protocolAddress   |-> JStr("0xproto"),
    sponsorshipRatio  |-> JStr("100"),
    estimatedFinalFeeTokenAmount |-> JStr("0"),
    estimatedFinalFeeUsd         |-> JStr("0.00") ] @@ PaymasterBody

\* The JSON values a response body may hold.
JsonBodies ==
  { JObj(SponsoredBody),
    JObj(PaymasterBody),
    \* only some of the sponsored-only members
    JObj(With(With(PaymasterBody, "maxNonce", JStr("7")),
              "sponsorshipRatio", JStr("100"))),
    \* a sponsored-only member written as null
    JObj(With(PaymasterBody, "maxNonce", JNull)),
    \* a member the struct does not declare
    JObj(With(PaymasterBody, "estimatedFinalFeeUSD", JStr("0.00"))),
    \* required members missing
    JObj(Without(PaymasterBody, "txData")),
    JObj(Without(SponsoredBody, "feeUSD")),
    JObj(With(PaymasterBody, "txData",
              JObj(Without(SampleTxData, "customData")))),
    \* members of the wrong type
    JObj(With(PaymasterBody, "gasLimit", JNum(21000))),
    JObj(With(PaymasterBody, "protocolAddress", JNum(1))),
    JObj(With(PaymasterBody, "txData",
              JObj(With(SampleTxData, "chainId", JNum(-1))))),
    \* an error document, and a bare JSON string
    JObj([error |-> JStr("insufficient balance")]),
    JStr("insufficient balance") }

\* Body texts that are no JSON document.
PlainBodies ==
  { <<>>,
    <<"insufficient balance">>,
    <<"bad path c:", BACKSLASH, "tmp">>,
    <<"{", QUOTE, "txData", QUOTE, ":">> }

\* Each JSON document of the model with its text on the wire.
Documents == { <<Render(j), j>> : j \in JsonBodies }

\* Every body text the transport may deliver.
Bodies == PlainBodies \cup { d[1] : d \in Documents }

\* serde_json::from_slice to a JSON value: the inverse of Render on the
\* documents of the model; any other text is a syntax error.
ParseJson(text) ==
  IF \E d \in Documents : d[1] = text
  THEN [ok |-> TRUE, json |-> (CHOOSE d \in Documents : d[1] = text)[2]]
  ELSE [ok |-> FALSE, diag |-> <<"expected value">>]

\* HTTP status codes the transport may deliver.
Statuses == {200, 299, 300, 402, 404}

\* Causes of a transport-level failure (reqwest::Error).
Causes == {"connection refused", "operation timed out"}

\* What reading a response body yields: the text, or a failure.
BodyResults ==
  { [ok |-> TRUE, text |-> b] : b \in Bodies }
    \cup { [ok |-> FALSE, cause |-> c] : c \in Causes }

(***************************************************************************)
(* The caller: client configurations and transaction inputs.               *)
(***************************************************************************)
\* ClientZyFi values the caller may construct.
Configs ==
  [ api_key           : {None, Some("key-1")},
    fee_token_address : {None, Some("0xfee")},
    testnet           : BOOLEAN,
    chain_id          : {DefaultChainId, 300} ]

\* Arguments of `sponsored` and `paymaster`.
TxInputs ==
  [ from      : {"0xa1", "0xa2"},
    to        : {"0xb1"},
    data      : {"0xd204", ""},
    gas_limit : {None, Some("21000")} ]

(***************************************************************************)
(* Results.                                                                *)
(***************************************************************************)
Ok(v) == [ok |-> TRUE, value |-> v]

Err(kind, msg) == [ok |-> FALSE, kind |-> kind, msg |-> msg]

\* anyhow!("API key not set ..."), lib.rs:67.
ApiKeyNotSet ==
  Err("ConfigurationError",
      <<"API key not set - which is necessary to sponsor ZyFi transactions">>)

\* Variant: the failed send reported through the parse-failure message.
SendErrorAsParse(cause) ==
  Err("DecodeError", <<"Failed to parse ZyFi response: ", cause>>)

\* `.send().await?`: the reqwest::Error of a failed send, converted by `?`.
SendError(cause) == Err("TransportError", <<"reqwest::Error: ", cause>>)

(***************************************************************************)
(* ClientZyFi::sponsored and ClientZyFi::paymaster up to the first await.  *)
(***************************************************************************)
\* Variant: `sponsored` copies the configured fee token as `paymaster` does.
SponsoredRequestWithFeeToken(cfg, tx) ==
  [ RequestDefault EXCEPT
      !.chain_id          = cfg.chain_id,
      !.sponsorship_ratio = Some(SponsorshipRatio),
      !.replay_limit      = Some(ReplayLimit),
      !.tx_data           = [from |-> tx.from, to |-> tx.to, data |-> tx.data],
      !.is_testnet        = cfg.testnet,
      !.fee_token_address = cfg.fee_token_address,
      !.gas_limit         = tx.gas_limit ]

\* The in_types::Request `sponsored` builds.
SponsoredRequest(cfg, tx) ==
  [ RequestDefault EXCEPT
      !.chain_id          = cfg.chain_id,
      !.sponsorship_ratio = Some(SponsorshipRatio),
      !.replay_limit      = Some(ReplayLimit),
      !.tx_data           = [from |-> tx.from, to |-> tx.to, data |-> tx.data],
      !.is_testnet        = cfg.testnet,
      !.gas_limit         = tx.gas_limit ]

\* The in_types::Request `paymaster` builds.
PaymasterRequest(cfg, tx) ==
  [ RequestDefault EXCEPT
      !.chain_id          = cfg.chain_id,
      !.tx_data           = [from |-> tx.from, to |-> tx.to, data |-> tx.data],
      !.is_testnet        = cfg.testnet,
      !.fee_token_address = cfg.fee_token_address,
      !.gas_limit         = tx.gas_limit ]

\* Variant: a missing key is sent as an empty header (unwrap_or_default).
SponsoredPostEmptyKey(cfg, req) ==
  Ok([ url     |-> ZYFI_SPONSORED_URL,
       headers |-> ("Content-Type" :> "application/json")
                     @@ ("X-API-Key" :> IF cfg.api_key = None THEN ""
                                        ELSE cfg.api_key[1]),
       body    |-> Render(SerializeRequest(req)) ])

\* The request builder chain of `sponsored`: the `?` on the missing key
\* returns before .json(&request).send() is reached.
SponsoredPost(cfg, req) ==
  IF cfg.api_key = None
  THEN ApiKeyNotSet
  ELSE Ok([ url     |-> ZYFI_SPONSORED_URL,
            headers |-> ("Content-Type" :> "application/json")
                          @@ ("X-API-Key" :> cfg.api_key[1]),
            body    |-> Render(SerializeRequest(req)) ])

\* Variant: `paymaster` attaches the key when one is configured.
PaymasterPostWithKey(cfg, req) ==
  Ok([ url     |-> ZYFI_PAYMASTER_URL,
       headers |-> ("Content-Type" :> "application/json")
                     @@ (IF cfg.api_key = None THEN <<>>
                         ELSE ("X-API-Key" :> cfg.api_key[1])),
       body    |-> Render(SerializeRequest(req)) ])

\* The request builder chain of `paymaster`.
PaymasterPost(cfg, req) ==
  Ok([ url     |-> ZYFI_PAYMASTER_URL,
       headers |-> ("Content-Type" :> "application/json"),
       body    |-> Render(SerializeRequest(req)) ])

(***************************************************************************)
(* ClientZyFi::handle_response.                                            *)
(***************************************************************************)
\* StatusCode::is_success.
is_success(status) == SuccessLow <= status /\ status <= SuccessHigh

\* response.json::<ZyFiResponse>(): read the body, parse it, decode it.
\* The value, or the reqwest::Error as its Debug text.
ResponseJson(body) ==
  IF ~body.ok THEN [ok |-> FALSE, diag |-> <<"reqwest::Error: ", body.cause>>]
  ELSE LET parsed == ParseJson(body.text)
       IN  IF ~parsed.ok
           THEN [ok |-> FALSE, diag |-> <<"reqwest::Error: ">> \o parsed.diag]
           ELSE LET decoded == DecodeResponse(parsed.json)
                IN  IF decoded.ok THEN decoded
                    ELSE [ok |-> FALSE,
                          diag |-> <<"reqwest::Error: ">> \o decoded.diag]

\* Variant: the body is decoded first and the status looked at only when
\* that fails.
handle_response_decode_first(status, body) ==
  LET r == ResponseJson(body)
  IN  IF r.ok THEN Ok(r.value)
      ELSE IF is_success(status)
      THEN Err("DecodeError", <<"Failed to parse ZyFi response: ">> \o r.diag)
      ELSE IF ~body.ok
      THEN Err("TransportError", <<"reqwest::Error: ", body.cause>>)
      ELSE Err("ApiError", <<"ZyFi error: ">> \o DebugString(body.text))

\* handle_response on a response of the given status whose body reads as
\* `body` (an element of BodyResults).
handle_response(status, body) ==
  IF is_success(status)
  THEN LET r == ResponseJson(body)
       IN  IF r.ok THEN Ok(r.value)
           ELSE Err("DecodeError",
                    <<"Failed to parse ZyFi response: ">> \o r.diag)
  ELSE IF ~body.ok
       THEN Err("TransportError", <<"reqwest::Error: ", body.cause>>)
       ELSE Err("ApiError", <<"ZyFi error: ">> \o DebugString(body.text))

(***************************************************************************)
(* State.                                                                  *)
(*   config   the ClientZyFi the calls borrow (&self).                     *)
(*   calls    one record per call slot: where the future of the call       *)
(*            stands (pc), its arguments, the request it built, the        *)
(*            response it holds and, once it has returned, its result.     *)
(*   posts    per call slot, the HTTP requests the call handed to          *)
(*            `.send()`, in order.                                         *)
(***************************************************************************)
Slots == 1 .. MaxCalls

IdleCall ==
  [ pc      |-> "idle",
    op      |-> "none",
    tx      |-> None,
    request |-> None,
    status  |-> None,
    body    |-> None,
    outcome |-> None ]

Init ==
  /\ config \in Configs
  /\ calls = [c \in Slots |-> IdleCall]
  /\ posts = [c \in Slots |-> <<>>]

\* A call begun with operation op and arguments tx, run to its first await
\* or to its early return: req is the request it built and built the result
\* of its request builder chain.
Begin(c, op, tx, req, built) ==
  /\ calls' = [calls EXCEPT ![c] =
       [ IdleCall EXCEPT
           !.pc      = IF built.ok THEN "await_send" ELSE "done",
           !.op      = op,
           !.tx      = Some(tx),
           !.request = Some(req),
           !.outcome = IF built.ok THEN None ELSE Some(built) ]]
  /\ posts' = [posts EXCEPT ![c] =
       IF built.ok THEN Append(posts[c], built.value) ELSE posts[c]]
  /\ UNCHANGED config

\* sponsored(tx_from, tx_to, tx_data, gas_limit), lines 47-73.
Sponsored(c, txs) ==
  /\ calls[c].pc = "idle"
  /\ \E tx \in txs :
       LET req == SponsoredRequest(config, tx)
       IN  Begin(c, "sponsored", tx, req, SponsoredPost(config, req))

\* paymaster(tx_from, tx_to, tx_data, gas_limit), lines 85-104.
Paymaster(c, txs) ==
  /\ calls[c].pc = "idle"
  /\ \E tx \in txs :
       LET req == PaymasterRequest(config, tx)
       IN  Begin(c, "paymaster", tx, req, PaymasterPost(config, req))

\* Variant: a failed send is tried again.
SendFailsRetries(c, causes) ==
  /\ calls[c].pc = "await_send"
  /\ \E cause \in causes :
       posts' = [posts EXCEPT ![c] = Append(posts[c], posts[c][1])]
  /\ UNCHANGED <<config, calls>>

\* `.send().await?` fails: the call returns the error.
SendFails(c, causes) ==
  /\ calls[c].pc = "await_send"
  /\ \E cause \in causes :
       calls' = [calls EXCEPT ![c].pc = "done",
                              ![c].outcome = Some(SendError(cause))]
  /\ UNCHANGED <<config, posts>>

\* `.send().await?` yields a response: handle_response reads its status and
\* awaits its body (response.json() or response.text()).
ResponseArrives(c, statuses) ==
  /\ calls[c].pc = "await_send"
  /\ \E status \in statuses :
       calls' = [calls EXCEPT ![c].pc = "await_body",
                              ![c].status = Some(status)]
  /\ UNCHANGED <<config, posts>>

\* The body is read, or reading it fails: handle_response returns.
BodyArrives(c, bodies) ==
  /\ calls[c].pc = "await_body"
  /\ \E body \in bodies :
       calls' = [calls EXCEPT
                   ![c].pc = "done",
                   ![c].body = Some(body),
                   ![c].outcome =
                      Some(handle_response(calls[c].status[1], body))]
  /\ UNCHANGED <<config, posts>>

\* The caller takes the result; the future and everything it owned is gone.
Return(c) ==
  /\ calls[c].pc = "done"
  /\ calls' = [calls EXCEPT ![c] = IdleCall]
  /\ posts' = [posts EXCEPT ![c] = <<>>]
  /\ UNCHANGED config

\* Variant: the request of a dropped call stays registered.
CancelKeepsRequest(c) ==
  /\ calls[c].pc \in {"await_send", "await_body"}
  /\ calls' = [calls EXCEPT ![c] = IdleCall]
  /\ UNCHANGED <<config, posts>>

\* The caller drops the future at one of its awaits.
Cancel(c) ==
  /\ calls[c].pc \in {"await_send", "await_body"}
  /\ calls' = [calls EXCEPT ![c] = IdleCall]
  /\ posts' = [posts EXCEPT ![c] = <<>>]
  /\ UNCHANGED config

\* No other call is in flight.
Alone(c) == \A d \in Slots \ {c} : calls[d].pc = "idle"

(***************************************************************************)
(* Spec: the calls of a caller that awaits each call before the next,      *)
(* over every configuration, argument and answer of the model.             *)
(***************************************************************************)
Next ==
  \E c \in Slots :
    \/ Alone(c) /\ Sponsored(c, TxInputs)
    \/ Alone(c) /\ Paymaster(c, TxInputs)
    \/ SendFails(c, Causes)
    \/ ResponseArrives(c, Statuses)
    \/ BodyArrives(c, BodyResults)
    \/ Return(c)
    \/ Cancel(c)

Spec == Init /\ [][Next]_vars

(***************************************************************************)
(* SpecConc: calls in flight together on the one client, interleaved at    *)
(* their awaits, over representative arguments and answers.                *)
(***************************************************************************)
ConcTxInputs ==
  { [from |-> "0xa1", to |-> "0xb1", data |-> "0xd204", gas_limit |-> None],
    [from |-> "0xa2", to |-> "0xb1", data |-> "",
     gas_limit |-> Some("21000")] }

ConcStatuses == {200, 402}

ConcCauses == {"connection refused"}

ConcBodyResults ==
  { [ok |-> TRUE, text |-> Render(JObj(SponsoredBody))],
    [ok |-> TRUE, text |-> Render(JObj(Without(PaymasterBody, "txData")))],
    [ok |-> TRUE, text |-> <<"insufficient balance">>] }

\* With and without the key, with and without the fee token, both networks.
ConcConfigs ==
  { [api_key |-> None, fee_token_address |-> None,
     testnet |-> FALSE, chain_id |-> DefaultChainId],
    [api_key |-> Some("key-1"), fee_token_address |-> None,
     testnet |-> FALSE, chain_id |-> DefaultChainId],
    [api_key |-> None, fee_token_address |-> Some("0xfee"),
     testnet |-> TRUE, chain_id |-> 300],
    [api_key |-> Some("key-1"), fee_token_address |-> Some("0xfee"),
     testnet |-> TRUE, chain_id |-> 300] }

InitConc ==
  /\ config \in ConcConfigs
  /\ calls = [c \in Slots |-> IdleCall]
  /\ posts = [c \in Slots |-> <<>>]

NextConc ==
  \E c \in Slots :
    \/ Sponsored(c, ConcTxInputs)
    \/ Paymaster(c, ConcTxInputs)
    \/ SendFails(c, ConcCauses)
    \/ ResponseArrives(c, ConcStatuses)
    \/ BodyArrives(c, ConcBodyResults)
    \/ Return(c)
    \/ Cancel(c)

SpecConc == InitConc /\ [][NextConc]_vars

(***************************************************************************)
(* Vocabulary of the properties.                                           *)
(***************************************************************************)
Started(c) == calls[c].pc # "idle"

Done(c) == calls[c].pc = "done"

Outcome(c) == calls[c].outcome[1]

Failed(c, kind) == Done(c) /\ ~Outcome(c).ok /\ Outcome(c).kind = kind

\* The call obtained a response of this status and read its body.
Answered(c) == Done(c) /\ calls[c].status # None /\ calls[c].body # None

Status(c) == calls[c].status[1]

Body(c) == calls[c].body[1]

\* The serialized payload of the request the call built, as a JSON object.
Payload(c) == SerializeRequest(calls[c].request[1]).o

\* Some token of the text is tok.
Mentions(text, tok) == \E i \in 1 .. Len(text) : text[i] = tok

\* The text body occurs in the text msg, token for token.
Contains(msg, body) ==
  \E i \in 0 .. (Len(msg) - Len(body)) :
     SubSeq(msg, i + 1, i + Len(body)) = body

\* The JSON document a body text holds, if it holds one.
IsDocument(text) == \E d \in Documents : d[1] = text

DocumentOf(text) == (CHOOSE d \in Documents : d[1] = text)[2]

\* The shape of a SponsorshipResponse on the wire (spec sections 3 and 6).
RequiredStrings ==
  { <<"gasLimit", "gas_limit">>, <<"gasPrice", "gas_price">>,
    <<"tokenAddress", "token_address">>, <<"tokenPrice", "token_price">>,
    <<"feeTokenAmount", "fee_token_amount">>,
    <<"feeTokendecimals", "fee_token_decimals">>,
    <<"feeUSD", "fee_usd">>, <<"markup", "markup">>,
    <<"expirationTime", "expiration_time">>, <<"expiresIn", "expires_in">> }

SponsoredOnly ==
  { <<"maxNonce", "max_nonce">>, <<"protocolAddress", "protocol_address">>,
    <<"sponsorshipRatio", "sponsorship_ratio">>,
    <<"estimatedFinalFeeTokenAmount", "estimated_final_fee_token_amount">>,
    <<"estimatedFinalFeeUsd", "estimated_final_fee_usd">> }

TxStrings ==
  { <<"from", "from">>, <<"to", "to">>, <<"data", "data">>,
    <<"value", "value">>, <<"maxFeePerGas", "max_fee_per_gas">> }

TxNumbers == { <<"chainId", "chain_id">>, <<"gasLimit", "gas_limit">> }

HasString(o, k) == k \in DOMAIN o /\ o[k].t = "str"

HasNumber(o, k) == k \in DOMAIN o /\ o[k].t = "num" /\ o[k].n >= 0

HasObject(o, k) == k \in DOMAIN o /\ o[k].t = "obj"

TxShape(o) ==
  /\ \A m \in TxStrings : HasString(o, m[1])
  /\ \A m \in TxNumbers : HasNumber(o, m[1])
  /\ HasObject(o, "customData")
  /\ HasNumber(o.customData.o, "gasPerPubdata")
  /\ HasObject(o.customData.o, "paymasterParams")
  /\ HasString(o.customData.o.paymasterParams.o, "paymaster")
  /\ HasString(o.customData.o.paymasterParams.o, "paymasterInput")

\* The sponsored-only members may be absent; a present one is a string.
ResponseShape(j) ==
  /\ j.t = "obj"
  /\ HasObject(j.o, "txData")
  /\ TxShape(j.o.txData.o)
  /\ \A m \in RequiredStrings : HasString(j.o, m[1])
  /\ \A m \in SponsoredOnly : m[1] \in DOMAIN j.o => j.o[m[1]].t = "str"

\* The same, a sponsored-only member written as null counting as absent.
Decodable(j) ==
  /\ j.t = "obj"
  /\ HasObject(j.o, "txData")
  /\ TxShape(j.o.txData.o)
  /\ \A m \in RequiredStrings : HasString(j.o, m[1])
  /\ \A m \in SponsoredOnly :
        m[1] \in DOMAIN j.o => j.o[m[1]].t \in {"str", "null"}

\* The struct v has the members of the document o, one for one.
FieldForField(v, o) ==
  /\ \A m \in RequiredStrings : v[m[2]] = o[m[1]].s
  /\ \A m \in SponsoredOnly :
        v[m[2]] = IF m[1] \in DOMAIN o THEN Some(o[m[1]].s) ELSE None
  /\ \A m \in TxStrings : v.tx_data[m[2]] = o.txData.o[m[1]].s
  /\ \A m \in TxNumbers : v.tx_data[m[2]] = o.txData.o[m[1]].n
  /\ v.tx_data.custom_data.gas_per_pubdata
        = o.txData.o.customData.o.gasPerPubdata.n
  /\ v.tx_data.custom_data.paymaster_params.paymaster
        = o.txData.o.customData.o.paymasterParams.o.paymaster.s
  /\ v.tx_data.custom_data.paymaster_params.paymaster_input
        = o.txData.o.customData.o.paymasterParams.o.paymasterInput.s

\* In the Debug escaping msg, which starts a token at lo, the token at i is
\* the second of a pair: an odd number of backslashes ends right before it.
EscapedAt(msg, lo, i) ==
  LET RunBefore[k \in (lo - 1) .. i] ==
        IF k < lo \/ msg[k] # BACKSLASH THEN 0 ELSE 1 + RunBefore[k - 1]
  IN  RunBefore[i - 1] % 2 = 1

RECURSIVE Unescape(_, _, _)

\* The text whose Debug escaping is msg[lo .. hi]: a backslash announces the
\* token after it.  (The text is split in halves, between two pairs.)
Unescape(msg, lo, hi) ==
  IF lo > hi THEN <<>>
  ELSE IF lo = hi THEN <<msg[lo]>>
  ELSE IF hi = lo + 1
       THEN IF msg[lo] = BACKSLASH THEN <<msg[hi]>> ELSE <<msg[lo], msg[hi]>>
  ELSE LET m0  == (lo + hi) \div 2
           mid == IF EscapedAt(msg, lo, m0 + 1) THEN m0 - 1 ELSE m0
       IN  Unescape(msg, lo, mid) \o Unescape(msg, mid + 1, hi)

\* The text a Debug-formatted string stands for, if msg is one.
IsQuoted(msg) == Len(msg) >= 2 /\ msg[1] = QUOTE /\ msg[Len(msg)] = QUOTE

Unquote(msg) == Unescape(msg, 2, Len(msg) - 1)

(***************************************************************************)
(* Properties.                                                             *)
(***************************************************************************)

\* C1: a `sponsored` call on a client without an API key ends in a
\* ConfigurationError, whatever the transaction input, and no HTTP request
\* is sent at any point of the call.
C1_NoKeyNoRequest ==
  \A c \in Slots :
    (calls[c].op = "sponsored" /\ config.api_key = None)
      => /\ Failed(c, "ConfigurationError")
         /\ posts[c] = <<>>

C1_Witness ==
  \E c \in Slots :
    /\ calls[c].op = "sponsored" /\ config.api_key = None
    /\ Done(c) /\ calls[c].tx[1].gas_limit # None

\* C2 as stated: a response of a non-2xx status makes the call fail with an
\* ApiError that carries the status code and the body text verbatim, and
\* the body is never decoded.
C2_StatusAndBodyVerbatim ==
  \A c \in Slots :
    (Done(c) /\ calls[c].status # None /\ ~is_success(Status(c)))
      => /\ Failed(c, "ApiError")
         /\ Mentions(Outcome(c).msg, ToString(Status(c)))
         /\ Body(c).ok /\ Contains(Outcome(c).msg, Body(c).text)

\* C2 amended: a response of a non-2xx status makes the call fail and its
\* body is never decoded.  When the body is read the failure is an ApiError
\* whose message is "ZyFi error: " followed by the body text in Rust's Debug
\* form (between quotes, quotes and backslashes escaped), from which the
\* body text is recovered exactly; the message holds nothing else, so the
\* status code is not in it.  When reading the body fails the failure is a
\* TransportError wrapping the cause.
C2_ApiErrorDebugBody ==
  \A c \in Slots :
    (Answered(c) /\ ~is_success(Status(c)))
      => /\ ~Outcome(c).ok
         /\ Body(c).ok =>
              /\ Outcome(c).kind = "ApiError"
              /\ Head(Outcome(c).msg) = "ZyFi error: "
              /\ IsQuoted(Tail(Outcome(c).msg))
              /\ Unquote(Tail(Outcome(c).msg)) = Body(c).text
         /\ ~Body(c).ok =>
              /\ Outcome(c).kind = "TransportError"
              /\ Mentions(Outcome(c).msg, Body(c).cause)

C2_Witness ==
  \E c \in Slots :
    /\ Answered(c) /\ Status(c) = 402 /\ Body(c).ok
    /\ IsDocument(Body(c).text) /\ ResponseShape(DocumentOf(Body(c).text))
    /\ Failed(c, "ApiError")

\* C3: a 2xx response whose body does not decode as a SponsorshipResponse
\* makes the call fail with a DecodeError carrying the parse diagnostic; the
\* call returns no value and reports neither ApiError nor TransportError.
C3_DecodeError ==
  \A c \in Slots :
    (Answered(c) /\ is_success(Status(c)) /\ Body(c).ok
       /\ ~(IsDocument(Body(c).text) /\ Decodable(DocumentOf(Body(c).text))))
      => /\ Failed(c, "DecodeError")
         /\ Head(Outcome(c).msg) = "Failed to parse ZyFi response: "
         /\ Len(Outcome(c).msg) > 1
         /\ (Body(c).text = Render(JObj(Without(PaymasterBody, "txData"))))
              => /\ Mentions(Outcome(c).msg, "missing field ")
                 /\ Mentions(Outcome(c).msg, "txData")

C3_Witness ==
  \E c \in Slots :
    /\ Answered(c) /\ Status(c) = 200 /\ Body(c).ok
    /\ Body(c).text = Render(JObj(Without(PaymasterBody, "txData")))
    /\ Failed(c, "DecodeError")

\* C4: a transport failure before a response is obtained makes the call
\* fail with a TransportError wrapping the cause, never with a value, an
\* ApiError or a DecodeError.  (A call that has sent its request and is done
\* without a status is a call whose send failed.)
C4_TransportError ==
  \A c \in Slots :
    (Done(c) /\ posts[c] # <<>> /\ calls[c].status = None)
      => /\ Failed(c, "TransportError")
         /\ \E cause \in Causes : Mentions(Outcome(c).msg, cause)

C4_Witness ==
  \E c \in Slots :
    /\ Done(c) /\ posts[c] # <<>> /\ calls[c].status = None
    /\ calls[c].op = "paymaster"
    /\ Mentions(Outcome(c).msg, "operation timed out")

\* C5: the payload `sponsored` builds has sponsorshipRatio 100 and
\* replayLimit 1 and no feeTokenAddress key, whatever the configuration;
\* what it sends is that payload.
C5_SponsoredPayload ==
  \A c \in Slots :
    calls[c].op = "sponsored"
      => /\ "sponsorshipRatio" \in DOMAIN Payload(c)
         /\ Payload(c).sponsorshipRatio = JNum(100)
         /\ "replayLimit" \in DOMAIN Payload(c)
         /\ Payload(c).replayLimit = JNum(1)
         /\ "feeTokenAddress" \notin DOMAIN Payload(c)
         /\ \A i \in 1 .. Len(posts[c]) :
              posts[c][i].body = Render(JObj(Payload(c)))

C5_Witness ==
  \E c \in Slots :
    /\ calls[c].op = "sponsored" /\ Len(posts[c]) = 1
    /\ config.fee_token_address # None

\* C6: the payload `paymaster` builds has no sponsorshipRatio and no
\* replayLimit key, and has a feeTokenAddress key exactly when a fee-token
\* address is configured, its value then being that address (never null);
\* what it sends is that payload.
C6_PaymasterPayload ==
  \A c \in Slots :
    calls[c].op = "paymaster"
      => /\ "sponsorshipRatio" \notin DOMAIN Payload(c)
         /\ "replayLimit" \notin DOMAIN Payload(c)
         /\ ("feeTokenAddress" \in DOMAIN Payload(c))
               <=> (config.fee_token_address # None)
         /\ (config.fee_token_address # None)
               => Payload(c).feeTokenAddress
                    = JStr(config.fee_token_address[1])
         /\ \A i \in 1 .. Len(posts[c]) :
              posts[c][i].body = Render(JObj(Payload(c)))

C6_Witness ==
  \E c \in Slots :
    /\ calls[c].op = "paymaster" /\ Len(posts[c]) = 1
    /\ config.fee_token_address = None
    /\ ~Mentions(posts[c][1].body, "feeTokenAddress")

\* C7: every request `paymaster` sends goes to the fee-paymaster endpoint
\* without an X-API-Key header, key configured or not; every request
\* `sponsored` sends goes to the sponsored-paymaster endpoint with the
\* configured key as X-API-Key.
C7_EndpointAndKey ==
  \A c \in Slots : \A i \in 1 .. Len(posts[c]) :
    /\ calls[c].op = "paymaster"
         => /\ posts[c][i].url = ZYFI_PAYMASTER_URL
            /\ "X-API-Key" \notin DOMAIN posts[c][i].headers
    /\ calls[c].op = "sponsored"
         => /\ posts[c][i].url = ZYFI_SPONSORED_URL
            /\ "X-API-Key" \in DOMAIN posts[c][i].headers
            /\ config.api_key = Some(posts[c][i].headers["X-API-Key"])

C7_Witness ==
  /\ config.api_key # None
  /\ \E c \in Slots : calls[c].op = "paymaster" /\ Len(posts[c]) = 1

\* C8: a call issues at most one POST; a call that has returned holds
\* exactly one outcome, a value or one of the four errors, and it issued no
\* request when that is a ConfigurationError and exactly one otherwise: no
\* retry and no fallback after a failure.
C8_SingleAttempt ==
  \A c \in Slots :
    /\ Len(posts[c]) <= 1
    /\ Done(c) <=> calls[c].outcome # None
    /\ Done(c) =>
         /\ Len(calls[c].outcome) = 1
         /\ \/ Outcome(c).ok
            \/ Outcome(c).kind \in {"ConfigurationError", "TransportError",
                                    "ApiError", "DecodeError"}
         /\ Len(posts[c]) = IF Failed(c, "ConfigurationError") THEN 0 ELSE 1

C8_Witness ==
  \E c \in Slots :
    /\ Failed(c, "TransportError") /\ calls[c].status = None
    /\ Len(posts[c]) = 1

\* C10: an HTTP 200 response whose body has the shape of a
\* SponsorshipResponse makes the call return a value whose members equal the
\* members of the body one for one, every sponsored-only member the body
\* lacks being absent in the value; lacking them is no decode failure.
C10_FieldForField ==
  \A c \in Slots :
    (Answered(c) /\ Status(c) = 200 /\ Body(c).ok
       /\ IsDocument(Body(c).text) /\ ResponseShape(DocumentOf(Body(c).text)))
      => /\ Outcome(c).ok
         /\ FieldForField(Outcome(c).value, DocumentOf(Body(c).text).o)

C10_Witness ==
  \E c \in Slots :
    /\ Answered(c) /\ Status(c) = 200 /\ Body(c).ok
    /\ Body(c).text = Render(JObj(PaymasterBody))
    /\ Outcome(c).ok
    /\ Outcome(c).value.max_nonce = None
    /\ Outcome(c).value.estimated_final_fee_usd = None

\* What a call with these arguments does when it runs alone on a client of
\* configuration cfg and the transport answers `answer`: the requests it
\* sends and its outcome.
RunAlone(cfg, op, tx, answer) ==
  LET req   == IF op = "sponsored" THEN SponsoredRequest(cfg, tx)
               ELSE PaymasterRequest(cfg, tx)
      built == IF op = "sponsored" THEN SponsoredPost(cfg, req)
               ELSE PaymasterPost(cfg, req)
  IN  IF ~built.ok THEN [sent |-> <<>>, outcome |-> built]
      ELSE [ sent    |-> <<built.value>>,
             outcome |-> IF answer.status = None
                         THEN SendError(answer.cause)
                         ELSE handle_response(answer.status[1],
                                              answer.body[1]) ]

\* The call in slot c is where it would be had it run alone.
Isolated(c) ==
  Started(c) =>
    LET start == RunAlone(config, calls[c].op, calls[c].tx[1],
                          [status |-> None, cause |-> "connection refused"])
    IN  /\ posts[c] = start.sent
        /\ Done(c) =>
             \E cause \in ConcCauses :
                Outcome(c) =
                  RunAlone(config, calls[c].op, calls[c].tx[1],
                           [status |-> calls[c].status, body |-> calls[c].body,
                            cause |-> cause]).outcome

\* A call dropped at an await leaves its slot as it was before the call, and
\* leaves the configuration and the other calls alone.
CancelLeavesNothing ==
  \A c \in Slots :
    (calls[c].pc \in {"await_send", "await_body"} /\ calls'[c].pc = "idle")
      => /\ calls'[c] = IdleCall
         /\ posts'[c] = <<>>
         /\ config' = config
         /\ \A d \in Slots \ {c} : calls'[d] = calls[d] /\ posts'[d] = posts[d]

\* C9: with calls of `sponsored` and `paymaster` in flight together on one
\* client, under every interleaving of their steps, the configuration never
\* changes, every call sends the request and has the outcome it would have
\* alone with the same arguments and the same answer, and a call dropped
\* while it awaits the network leaves nothing behind.
C9_Independent ==
  /\ [](\A c \in Slots : Isolated(c))
  /\ [][config' = config]_vars
  /\ [][CancelLeavesNothing]_vars

C9_Witness ==
  \E c, d \in Slots :
    /\ c # d
    /\ calls[c].op = "sponsored" /\ calls[c].pc = "await_body"
    /\ calls[d].op = "paymaster" /\ Done(d) /\ Outcome(d).ok
    /\ calls[c].tx # calls[d].tx

=============================================================================
